---- MODULE Spec2Model ----
(***************************************************************************)
(* A model of go-quote (src/quote.go): the Quote codecs (CSV text encode   *)
(* and decode), the provider adapters (Yahoo, Tiingo, Gdax), the batch     *)
(* functions over a symbol list, the symbol lists (markets, ETFs), the     *)
(* charting output, and parseHistorical of the older adapter               *)
(* (src/yahoo.go).                                                         *)
(*                                                                         *)
(* Numbers.  A float64 is modelled by an integer count of millionths       *)
(* (Micro units), so that "%.2f" and "%.6f" are real conversions.  A       *)
(* time.Time of the codecs is the number of seconds since Go's zero time.  *)
(*                                                                         *)
(* Text.  A string handed to a decoder is a sequence of tokens: a field    *)
(* (a piece of text without comma or newline) or the newline token NL;     *)
(* two fields that follow each other are separated by a comma.             *)
(***************************************************************************)
EXTENDS Integers, Sequences, FiniteSets, TLC

VARIABLES codec, fetch, batch, util

vars == <<codec, fetch, batch, util>>

(***************************************************************************)
(* Bounds of the model.                                                    *)
(***************************************************************************)
MaxLines == 3
MaxRows == 2
MaxWindows == 2
MaxSyms == 3
MaxTickers == 3
MaxEtfLines == 2
MaxSeries == 2
MaxCalls == 2

(***************************************************************************)
(* Text tokens.                                                            *)
(***************************************************************************)
\* a field holding the plain text s
Txt(s) == [k |-> "txt", s |-> s, p |-> 0, v |-> 0]
\* a field "YYYY-MM-DD HH:MM" naming minute m since the zero time
DateTxt(m) == [k |-> "dt", s |-> "", p |-> 0, v |-> m]
\* a field "YYYY-MM-DD" naming day d since the zero time
DayTxt(d) == [k |-> "day", s |-> "", p |-> 0, v |-> d]
\* a decimal number with p digits after the point, of value n / 10^p
NumTxt(p, n) == [k |-> "num", s |-> "", p |-> p, v |-> n]
\* the newline character
NL == [k |-> "nl", s |-> "", p |-> 0, v |-> 0]

\* the zero time.Time, which a failed time.Parse returns
ZeroTime == 0

Pow10(n) == CASE n = 0 -> 1 [] n = 1 -> 10 [] n = 2 -> 100 [] n = 3 -> 1000
              [] n = 4 -> 10000 [] n = 5 -> 100000 [] OTHER -> 1000000

\* the float64 1.0
Micro == Pow10(6)

\* x / d rounded to the nearest integer, ties to even (x >= 0, d > 0)
RoundDiv(x, d) ==
    LET q == x \div d
        r == x % d
    IN  IF 2 * r < d THEN q
        ELSE IF 2 * r > d THEN q + 1
        ELSE IF q % 2 = 0 THEN q ELSE q + 1

\* fmt.Sprintf("%.<p>f", x)
FormatFloat(x, p) == NumTxt(p, RoundDiv(x, Pow10(6 - p)))

\* ParseFloat giving NaN for a malformed field
ParseFloat_NaN(f) == IF f.k = "num" THEN f.v * Pow10(6 - f.p) ELSE -1

\* strconv.ParseFloat(f, 64) with its error dropped: 0 for a malformed field
ParseFloat(f) == IF f.k = "num" THEN f.v * Pow10(6 - f.p) ELSE 0

\* t.Format("2006-01-02 15:04")
FormatMinute(t) == DateTxt(t \div 60)

\* time.Parse("2006-01-02 15:04", f) with its error dropped
ParseMinute(f) == IF f.k = "dt" THEN f.v * 60 ELSE ZeroTime

\* time.Parse("2006-01-02", f) with its error dropped
ParseDay(f) == IF f.k = "day" THEN f.v * 86400 ELSE ZeroTime

RECURSIVE SplitNL(_)
\* strings.Split(text, "\n"): the pieces between the newlines, always >= 1
SplitNL(text) ==
    IF \A i \in 1..Len(text) : text[i] # NL THEN <<text>>
    ELSE LET i == CHOOSE j \in 1..Len(text) :
                     text[j] = NL /\ \A m \in 1..(j - 1) : text[m] # NL
         IN  <<SubSeq(text, 1, i - 1)>> \o SplitNL(SubSeq(text, i + 1, Len(text)))

\* strings.Split(line, ","): the fields of a line; the empty line has one
\* empty field
SplitComma(line) == IF line = <<>> THEN <<Txt("")>> ELSE line

(***************************************************************************)
(* Quote                                                                   *)
(***************************************************************************)
Fill(bars, x) == [i \in 1..bars |-> x]

\* NewQuote: six slices of a common length; make() panics on a negative one
NewQuote(symbol, bars) ==
    [Symbol |-> symbol, Date |-> Fill(bars, ZeroTime), Open |-> Fill(bars, 0),
     High |-> Fill(bars, 0), Low |-> Fill(bars, 0), Close |-> Fill(bars, 0),
     Volume |-> Fill(bars, 0)]

\* the outcome of a call that panicked
Panicked == [panic |-> TRUE, err |-> "nil", q |-> NewQuote("", 0)]
Returned(q, err) == [panic |-> FALSE, err |-> err, q |-> q]

CsvHeader == <<Txt("datetime"), Txt("open"), Txt("high"), Txt("low"),
               Txt("close"), Txt("volume")>>

RECURSIVE CSVLines(_, _)
CSVLines(q, bar) ==
    IF bar > Len(q.Close) THEN <<>>
    ELSE <<FormatMinute(q.Date[bar]), FormatFloat(q.Open[bar], 2),
           FormatFloat(q.High[bar], 2), FormatFloat(q.Low[bar], 2),
           FormatFloat(q.Close[bar], 2), FormatFloat(q.Volume[bar], 6), NL>>
         \o CSVLines(q, bar + 1)

\* Quote.CSV
QuoteCSV(q) == CsvHeader \o <<NL>> \o CSVLines(q, 1)

\* NewQuoteFromCSV: the symbol parameter is not used
NewQuoteFromCSV(symbol, csv) ==
    LET tmp == SplitNL(csv)
        numrows == Len(tmp) - 1
        line(row) == SplitComma(tmp[row + 1])
    IN  IF numrows - 1 < 0 THEN Panicked
        ELSE IF \E row \in 1..(numrows - 1) : Len(line(row)) < 6 THEN Panicked
        ELSE Returned(
               [Symbol |-> "",
                Date   |-> [bar \in 1..(numrows - 1) |-> ParseMinute(line(bar)[1])],
                Open   |-> [bar \in 1..(numrows - 1) |-> ParseFloat(line(bar)[2])],
                High   |-> [bar \in 1..(numrows - 1) |-> ParseFloat(line(bar)[3])],
                Low    |-> [bar \in 1..(numrows - 1) |-> ParseFloat(line(bar)[4])],
                Close  |-> [bar \in 1..(numrows - 1) |-> ParseFloat(line(bar)[5])],
                Volume |-> [bar \in 1..(numrows - 1) |-> ParseFloat(line(bar)[6])]],
               "nil")

\* the quotes of the symbols of order, each taking the next index[sym] lines
SymCount(tmp, numrows, sym) ==
    Cardinality({idx \in 1..(numrows - 1) : SplitComma(tmp[idx + 1])[1].s = sym})

RECURSIVE RangeIndex(_, _, _, _)
RangeIndex(tmp, numrows, order, row) ==
    IF order = <<>> THEN <<>>
    ELSE LET sym == Head(order)
             len == SymCount(tmp, numrows, sym)
             line(bar) == SplitComma(tmp[row + bar])
         IN  <<[Symbol |-> sym,
                Date   |-> [bar \in 1..len |-> ParseMinute(line(bar)[2])],
                Open   |-> [bar \in 1..len |-> ParseFloat(line(bar)[3])],
                High   |-> [bar \in 1..len |-> ParseFloat(line(bar)[4])],
                Low    |-> [bar \in 1..len |-> ParseFloat(line(bar)[5])],
                Close  |-> [bar \in 1..len |-> ParseFloat(line(bar)[6])],
                Volume |-> [bar \in 1..len |-> ParseFloat(line(bar)[7])]]>>
             \o RangeIndex(tmp, numrows, Tail(order), row + len)

\* the keys of the symbol-count map
IndexKeys(csv) ==
    LET tmp == SplitNL(csv)
    IN  {SplitComma(tmp[idx + 1])[1].s : idx \in 1..(Len(tmp) - 2)}

\* the orders in which a range over a map of these keys can visit them
Perms(S) == {f \in [1..Cardinality(S) -> S] :
                \A i, j \in 1..Cardinality(S) : i # j => f[i] # f[j]}

\* NewQuotesFromCSV, with the order in which the range over the map index
\* visits its keys
NewQuotesFromCSV(csv, order) ==
    LET tmp == SplitNL(csv)
        numrows == Len(tmp) - 1
    IN  IF \E row \in 1..(numrows - 1) : Len(SplitComma(tmp[row + 1])) < 7
        THEN [panic |-> TRUE, err |-> "nil", qs |-> <<>>]
        ELSE [panic |-> FALSE, err |-> "nil",
              qs |-> RangeIndex(tmp, numrows, order, 1)]

(***************************************************************************)
(* The inputs of the codecs.                                               *)
(***************************************************************************)
Symbols == {"spy", "aapl"}

\* a well-formed data line of a one-symbol text
GoodLine(i) == <<DateTxt(i), NumTxt(2, 100 * i + 1), NumTxt(2, 100 * i + 3),
                 NumTxt(2, 100 * i), NumTxt(2, 100 * i + 2), NumTxt(2, 1000 * i)>>
\* a line with all its columns, the date and the low malformed
BadFieldLine == <<Txt("x"), NumTxt(2, 901), NumTxt(2, 903), Txt(""),
                  NumTxt(2, 902), NumTxt(2, 9000)>>
BlankLine == <<>>

SingleLines == {GoodLine(i) : i \in 1..2} \cup {BadFieldLine, BlankLine}
MultiLines  == {<<Txt(sym)>> \o l : sym \in Symbols, l \in {GoodLine(1), GoodLine(2)}}
               \cup {<<Txt("spy")>> \o BadFieldLine, BlankLine}

SeqsUpTo(S, n) == UNION {[1..m -> S] : m \in 0..n}

RECURSIVE JoinNL(_)
JoinNL(lines) ==
    IF lines = <<>> THEN <<>>
    ELSE IF Len(lines) = 1 THEN Head(lines)
    ELSE Head(lines) \o <<NL>> \o JoinNL(Tail(lines))

\* the text of a header line, the data lines and, when asked, a final newline
TextOf(header, lines, finalNL) ==
    JoinNL(<<header>> \o lines) \o (IF finalNL THEN <<NL>> ELSE <<>>)

\* the bars a Quote to encode is made of
BarSet == {[Date |-> 60 * i + 30 * (i % 2), Open |-> i * Micro + 5000 * i,
            High |-> i * Micro + 15000, Low |-> i * Micro, Close |-> i * Micro + 20000,
            Volume |-> 7 * i * Micro + i] : i \in 1..3}

QuoteOf(symbol, bars) ==
    [Symbol |-> symbol, Date |-> [i \in 1..Len(bars) |-> bars[i].Date],
     Open |-> [i \in 1..Len(bars) |-> bars[i].Open],
     High |-> [i \in 1..Len(bars) |-> bars[i].High],
     Low |-> [i \in 1..Len(bars) |-> bars[i].Low],
     Close |-> [i \in 1..Len(bars) |-> bars[i].Close],
     Volume |-> [i \in 1..Len(bars) |-> bars[i].Volume]]

NoQuote == NewQuote("", 0)
NoResult == [panic |-> FALSE, err |-> "none", q |-> NoQuote, qs |-> <<>>]

CodecIdle == [pc |-> "idle", fn |-> "", symbol |-> "", lines |-> <<>>,
              finalNL |-> FALSE, s |-> NoQuote, csv |-> <<>>, res |-> NoResult]

MultiHeader == <<Txt("symbol")>> \o CsvHeader

CodecInputs ==
    \/ \E symbol \in Symbols, lines \in SeqsUpTo(SingleLines, MaxLines), finalNL \in BOOLEAN :
          codec = [CodecIdle EXCEPT !.pc = "decode", !.fn = "NewQuoteFromCSV",
                     !.symbol = symbol, !.lines = lines, !.finalNL = finalNL,
                     !.csv = TextOf(CsvHeader, lines, finalNL)]
    \/ \E symbol \in Symbols :
          codec = [CodecIdle EXCEPT !.pc = "decode", !.fn = "NewQuoteFromCSV",
                     !.symbol = symbol, !.lines = <<>>, !.csv = <<>>]
    \/ \E lines \in SeqsUpTo(MultiLines, MaxLines), finalNL \in BOOLEAN :
          codec = [CodecIdle EXCEPT !.pc = "decode", !.fn = "NewQuotesFromCSV",
                     !.lines = lines, !.finalNL = finalNL,
                     !.csv = TextOf(MultiHeader, lines, finalNL)]
    \/ \E symbol \in Symbols \cup {""}, bars \in SeqsUpTo(BarSet, MaxLines) :
          codec = [CodecIdle EXCEPT !.pc = "encode", !.fn = "NewQuoteFromCSV",
                     !.symbol = symbol, !.s = QuoteOf(symbol, bars)]

\* q.CSV()
Encode ==
    /\ UNCHANGED <<fetch, batch, util>>
    /\ codec.pc = "encode"
    /\ codec' = [codec EXCEPT !.pc = "decode", !.csv = QuoteCSV(codec.s)]

\* NewQuoteFromCSV(symbol, csv)
DecodeQuote ==
    /\ UNCHANGED <<fetch, batch, util>>
    /\ codec.pc = "decode"
    /\ codec.fn = "NewQuoteFromCSV"
    /\ LET r == NewQuoteFromCSV(codec.symbol, codec.csv)
       IN  codec' = [codec EXCEPT !.pc = IF r.panic THEN "panic" ELSE "done",
                                  !.res = [NoResult EXCEPT !.panic = r.panic,
                                             !.err = r.err, !.q = r.q]]

\* NewQuotesFromCSV(csv)
DecodeQuotes ==
    /\ UNCHANGED <<fetch, batch, util>>
    /\ codec.pc = "decode"
    /\ codec.fn = "NewQuotesFromCSV"
    /\ \E order \in Perms(IndexKeys(codec.csv)) :
          LET r == NewQuotesFromCSV(codec.csv, order)
          IN  codec' = [codec EXCEPT !.pc = IF r.panic THEN "panic" ELSE "done",
                                     !.res = [NoResult EXCEPT !.panic = r.panic,
                                                !.err = r.err, !.qs = r.qs]]


(***************************************************************************)
(* The provider adapters: one call of NewQuoteFromYahoo,                   *)
(* NewQuoteFromTiingo or NewQuoteFromGdax, a step per network exchange.    *)
(***************************************************************************)
Min1 == "60"
Min5 == "300"
Min15 == "900"
Min30 == "1800"
Min60 == "3600"
Daily == "d"
Weekly == "w"
Monthly == "m"
Periods == {Min1, Min5, Min15, Min30, Min60, Daily, Weekly, Monthly}

\* the float64 values NaN and +Inf, which no price of the model equals
NaN == -1
PosInf == -2

RECURSIVE GCD(_, _)
GCD(a, b) == IF b = 0 THEN a ELSE GCD(b, a % b)

\* the float64 quotient c / a of two values >= 0, as a fraction in lowest terms
FloatDiv(c, a) ==
    IF a = 0 THEN [n |-> IF c = 0 THEN NaN ELSE PosInf, d |-> 0]
    ELSE [n |-> c \div GCD(c, a), d |-> a \div GCD(c, a)]

\* the float64 product of a value x >= 0 and a quotient
FloatMul(x, ratio) ==
    IF ratio.d = 0
    THEN IF ratio.n = NaN \/ x = 0 THEN NaN ELSE PosInf
    ELSE (x * ratio.n) \div ratio.d

Request(kind) == [kind |-> kind, call |-> 0, jar |-> 0, crumb |-> "", start |-> 0,
                  end |-> 0, granularity |-> 0, token |-> ""]

FetchIdle ==
    [adapter |-> "", pc |-> "idle", symbol |-> "", period |-> Daily,
     adjustQuote |-> FALSE, token |-> "", call |-> 1, jar |-> "none", jarId |-> 0,
     crumb |-> "", tokens |-> {},
     homeFailed |-> FALSE, crumbFailed |-> "no", body |-> <<>>, badJSON |-> FALSE,
     requests |-> <<>>, q |-> NoQuote, err |-> "none",
     start |-> 0, end |-> 0, granularity |-> 0, startBar |-> 0, endBar |-> 0,
     book |-> {}, windows |-> <<>>]

\* return q, err
Return(f, q, err) == [f EXCEPT !.pc = "done", !.q = q, !.err = err]
\* a run-time panic ends the call (and the program)
Panic(f) == [f EXCEPT !.pc = "panic"]

(***************************************************************************)
(* NewQuoteFromYahoo                                                       *)
(***************************************************************************)
YahooHeader == <<Txt("Date"), Txt("Open"), Txt("High"), Txt("Low"), Txt("Close"),
                 Txt("Adj Close"), Txt("Volume")>>

\* a data row of the download: date d, raw close c and adjusted close a
YahooRow(d, c, a) == <<DayTxt(d), NumTxt(2, 600), NumTxt(2, 800), NumTxt(2, 400),
                       NumTxt(2, 100 * c), NumTxt(2, 100 * a), NumTxt(0, 1000 + d)>>
\* a day without data
YahooNullRow(d) == <<DayTxt(d), Txt("null"), Txt("null"), Txt("null"), Txt("null"),
                     Txt("null"), Txt("null")>>

YahooRows == {YahooRow(d, ca[1], ca[2]) : d \in 1..3, ca \in {<<4, 2>>, <<2, 4>>}}
             \cup {YahooNullRow(d) : d \in 1..3}

\* the records csv.Reader reads from a response body: the downloads, an
\* error message of one column, and the empty body
YahooBodies ==
    {<<YahooHeader>> \o rows : rows \in SeqsUpTo(YahooRows, MaxRows)}
    \cup {<<>>, <<<<Txt("error")>>>>, <<<<Txt("error")>>, <<Txt("Unauthorized")>>>>,
          <<YahooHeader, <<Txt("truncated")>>>>}

\* reader.ReadAll fails on a record whose number of fields is not the first's
ReadAllOk(csvdata) == \A i \in 1..Len(csvdata) : Len(csvdata[i]) = Len(csvdata[1])

\* YahooBar with the ratio of the older adapter, adjClose / close
YahooBar_InvertedRatio(rec, adjustQuote) ==
    LET o == ParseFloat(rec[2])
        h == ParseFloat(rec[3])
        l == ParseFloat(rec[4])
        c == ParseFloat(rec[5])
        a == ParseFloat(rec[6])
        ratio == FloatDiv(a, c)
    IN  IF adjustQuote
        THEN [Date |-> ParseDay(rec[1]), Open |-> o, High |-> h, Low |-> l, Close |-> a,
              Volume |-> ParseFloat(rec[7])]
        ELSE [Date |-> ParseDay(rec[1]), Open |-> FloatMul(o, ratio),
              High |-> FloatMul(h, ratio), Low |-> FloatMul(l, ratio), Close |-> c,
              Volume |-> ParseFloat(rec[7])]

\* the bar of one data row under the adjustment flag
YahooBar(rec, adjustQuote) ==
    LET d == ParseDay(rec[1])
        o == ParseFloat(rec[2])
        h == ParseFloat(rec[3])
        l == ParseFloat(rec[4])
        c == ParseFloat(rec[5])
        a == ParseFloat(rec[6])
        v == ParseFloat(rec[7])
        ratio == FloatDiv(c, a)
    IN  IF adjustQuote
        THEN [Date |-> d, Open |-> o, High |-> h, Low |-> l, Close |-> a, Volume |-> v]
        ELSE [Date |-> d, Open |-> FloatMul(o, ratio), High |-> FloatMul(h, ratio),
              Low |-> FloatMul(l, ratio), Close |-> c, Volume |-> v]

\* YahooBarIndex as the adapter of the older download format had it
YahooBarIndex_Reversed(row, numrows) == numrows + 1 - row

\* the index of the bar that data row `row` (1-based among the data rows) fills
YahooBarIndex(row, numrows) == row

\* the quote built from the records: quote.X[row-1] = ... for row 1..len-1
YahooQuote(symbol, csvdata, adjustQuote) ==
    LET numrows == Len(csvdata) - 1
        rowOf(bar) == CHOOSE row \in 1..numrows : YahooBarIndex(row, numrows) = bar
        b(bar) == YahooBar(csvdata[rowOf(bar) + 1], adjustQuote)
    IN  [Symbol |-> symbol,
         Date |-> [bar \in 1..numrows |-> b(bar).Date],
         Open |-> [bar \in 1..numrows |-> b(bar).Open],
         High |-> [bar \in 1..numrows |-> b(bar).High],
         Low |-> [bar \in 1..numrows |-> b(bar).Low],
         Close |-> [bar \in 1..numrows |-> b(bar).Close],
         Volume |-> [bar \in 1..numrows |-> b(bar).Volume]]

\* YahooRejects turning away the intraday periods only
YahooRejects_Intraday(period) == period \notin {Daily, Weekly, Monthly}

\* period != Daily
YahooRejects(period) == period # Daily

\* NewJar handing every call the jar of the first
NewJar_Shared(call) == 1

\* cookiejar.New(nil): a jar of its own for the call
NewJar(call) == call

\* a request sent through the client of the call
YahooRequest(f, kind) == [Request(kind) EXCEPT !.call = f.call, !.jar = f.jarId]

\* the check of the period, then cookiejar.New
YahooCheckPeriod ==
    /\ UNCHANGED <<codec, batch, util>>
    /\ fetch.adapter = "yahoo"
    /\ fetch.pc = "call"
    /\ fetch' = IF YahooRejects(fetch.period)
                THEN Return(fetch, NewQuote("", 0), "Yahoo intraday data no longer supported")
                ELSE [fetch EXCEPT !.pc = "home", !.jar = "empty",
                             !.jarId = NewJar(fetch.call)]

\* client.Do(initReq): its error is dropped, its response is not read
YahooHome ==
    /\ UNCHANGED <<codec, batch, util>>
    /\ fetch.adapter = "yahoo"
    /\ fetch.pc = "home"
    /\ \E ok \in BOOLEAN :
          fetch' = [fetch EXCEPT !.pc = "crumb",
                      !.requests = Append(@, YahooRequest(fetch, "home")),
                      !.jar = IF ok THEN "cookie" ELSE @,
                      !.homeFailed = ~ok]

\* client.Do(crumbReq) with its error dropped, then reader.Read of resp.Body
YahooCrumb ==
    /\ UNCHANGED <<codec, batch, util>>
    /\ fetch.adapter = "yahoo"
    /\ fetch.pc = "crumb"
    /\ LET f == [fetch EXCEPT !.requests = Append(@, YahooRequest(fetch, "crumb"))]
       IN  \/ \* the request fails: resp is nil and resp.Body dereferences it
              fetch' = Panic([f EXCEPT !.crumbFailed = "net"])
           \/ \* the body holds no record (empty, or cut off)
              fetch' = Return([f EXCEPT !.crumbFailed = "read"], NewQuote("", 0), "EOF")
           \/ \E crumb \in {"c1", "c2"} :
                 fetch' = [f EXCEPT !.pc = "data", !.crumb = crumb,
                             !.tokens = @ \cup {[call |-> fetch.call, crumb |-> crumb]}]

\* client.Get(url), reader.ReadAll and the loop over the rows
YahooDownload ==
    /\ UNCHANGED <<codec, batch, util>>
    /\ fetch.adapter = "yahoo"
    /\ fetch.pc = "data"
    /\ LET f == [fetch EXCEPT !.requests =
                    Append(@, [YahooRequest(fetch, "download") EXCEPT !.crumb = fetch.crumb])]
       IN  \/ fetch' = Return(f, NewQuote("", 0), "network")
           \/ \E csvdata \in YahooBodies :
                 LET g == [f EXCEPT !.body = csvdata]
                     numrows == Len(csvdata) - 1
                 IN  fetch' =
                       IF ~ReadAllOk(csvdata) THEN Return(g, NewQuote("", 0), "csv")
                       ELSE IF numrows < 0 THEN Panic(g)
                       ELSE IF numrows > 0 /\ Len(csvdata[1]) < 7 THEN Panic(g)
                       ELSE Return(g, YahooQuote(fetch.symbol, csvdata, fetch.adjustQuote),
                                   "nil")

\* the next iteration of NewQuotesFromYahooSyms: a call for the next symbol
YahooNextCall ==
    /\ UNCHANGED <<codec, batch, util>>
    /\ fetch.adapter = "yahoo"
    /\ fetch.pc = "done"
    /\ fetch.call < MaxCalls
    /\ fetch' = [fetch EXCEPT !.pc = "call", !.call = @ + 1, !.symbol = "aapl",
                    !.jar = "none", !.jarId = 0, !.crumb = "", !.homeFailed = FALSE,
                    !.crumbFailed = "no", !.body = <<>>, !.q = NoQuote, !.err = "none"]

InitYahoo ==
    \E period \in Periods, adjustQuote \in BOOLEAN :
       fetch = [FetchIdle EXCEPT !.adapter = "yahoo", !.pc = "call", !.symbol = "spy",
                  !.period = period, !.adjustQuote = adjustQuote]

(***************************************************************************)
(* NewQuoteFromTiingo / tiingoDaily                                        *)
(***************************************************************************)
\* the text "YYYY-MM-DDT00:00:00.000Z" of day d
StampTxt(d) == [k |-> "stamp", s |-> "", p |-> 0, v |-> d]

\* f[0:10]: the first ten characters; a shorter text panics
HasTen(f) == f.k = "stamp"
FirstTen(f) == DayTxt(f.v)

\* one object of the response: raw and adjusted prices of day d
TiingoObject(d) ==
    [date |-> StampTxt(d),
     adjOpen |-> (20 + d) * Micro, adjHigh |-> (40 + d) * Micro,
     adjLow |-> (10 + d) * Micro, adjClose |-> (30 + d) * Micro, adjVolume |-> 500 + d,
     open |-> (120 + d) * Micro, high |-> (140 + d) * Micro, low |-> (110 + d) * Micro,
     close |-> (130 + d) * Micro, volume |-> 700 + d]

TiingoObjects == {TiingoObject(d) : d \in 1..3}
                 \cup {[TiingoObject(1) EXCEPT !.date = Txt("")]}

\* the bar of one response object
TiingoBar(o) ==
    [Date |-> ParseDay(FirstTen(o.date)), Open |-> o.adjOpen, High |-> o.adjHigh,
     Low |-> o.adjLow, Close |-> o.adjClose, Volume |-> o.volume * Micro]

\* the quote of the decoded response, in the order received
TiingoQuote(symbol, tiingo) ==
    [Symbol |-> symbol,
     Date |-> [bar \in 1..Len(tiingo) |-> TiingoBar(tiingo[bar]).Date],
     Open |-> [bar \in 1..Len(tiingo) |-> TiingoBar(tiingo[bar]).Open],
     High |-> [bar \in 1..Len(tiingo) |-> TiingoBar(tiingo[bar]).High],
     Low |-> [bar \in 1..Len(tiingo) |-> TiingoBar(tiingo[bar]).Low],
     Close |-> [bar \in 1..Len(tiingo) |-> TiingoBar(tiingo[bar]).Close],
     Volume |-> [bar \in 1..Len(tiingo) |-> TiingoBar(tiingo[bar]).Volume]]

\* tiingoDaily: the request with the token header, then the decoding
TiingoDaily ==
    /\ UNCHANGED <<codec, batch, util>>
    /\ fetch.adapter = "tiingo"
    /\ fetch.pc = "call"
    /\ LET f == [fetch EXCEPT !.requests =
                    Append(@, [Request("tiingo") EXCEPT !.token = fetch.token])]
       IN  \/ fetch' = Return(f, NewQuote("", 0), "network")
           \/ \* json.Unmarshal fails: the error is logged, tiingo stays empty
              fetch' = Return([f EXCEPT !.body = <<>>, !.badJSON = TRUE],
                              TiingoQuote(fetch.symbol, <<>>), "nil")
           \/ \E tiingo \in SeqsUpTo(TiingoObjects, MaxRows) :
                 LET g == [f EXCEPT !.body = tiingo]
                 IN  fetch' = IF \E bar \in 1..Len(tiingo) : ~HasTen(tiingo[bar].date)
                              THEN Panic(g)
                              ELSE Return(g, TiingoQuote(fetch.symbol, tiingo), "nil")

InitTiingo ==
    \E token \in {"", "tok"} :
       fetch = [FetchIdle EXCEPT !.adapter = "tiingo", !.pc = "call", !.symbol = "spy",
                  !.token = token]

(***************************************************************************)
(* NewQuoteFromGdax                                                        *)
(***************************************************************************)
maxBars == 200
\* the Unix time 0 on the model's clock
UnixEpoch == 1000

\* Granularity with a switch without its default case
Granularity_NoDefault(period) ==
    CASE period = Min1 -> 60
      [] period = Min5 -> 5 * 60
      [] period = Min15 -> 15 * 60
      [] period = Min30 -> 30 * 60
      [] period = Min60 -> 60 * 60
      [] period = Daily -> 24 * 60 * 60
      [] period = Weekly -> 7 * 24 * 60 * 60
      [] OTHER -> 0

\* the switch on the period: seconds
Granularity(period) ==
    CASE period = Min1 -> 60
      [] period = Min5 -> 5 * 60
      [] period = Min15 -> 15 * 60
      [] period = Min30 -> 30 * 60
      [] period = Min60 -> 60 * 60
      [] period = Daily -> 24 * 60 * 60
      [] period = Weekly -> 7 * 24 * 60 * 60
      [] OTHER -> 24 * 60 * 60

\* time.Unix(sec, 0)
TimeUnix(sec) == UnixEpoch + sec

\* the candle the exchange holds for the interval that starts at t:
\* [time, low, high, open, close, volume]
Candle(t) == <<t - UnixEpoch, 1 * Micro, 4 * Micro, 2 * Micro, 3 * Micro, 5 * Micro>>

RECURSIVE Descending(_)
\* the times of a set, latest first
Descending(S) ==
    IF S = {} THEN <<>>
    ELSE LET m == CHOOSE x \in S : \A y \in S : y <= x
         IN  <<m>> \o Descending(S \ {m})

\* the response to a request for [start, end]: the candles the exchange holds
\* in the window, latest first
Candles(book, start, end) ==
    LET ts == Descending({t \in book : start <= t /\ t <= end})
    IN  [i \in 1..Len(ts) |-> Candle(ts[i])]

\* GdaxBarIndex without the reversal
GdaxBarIndex_Kept(row, numrows) == row

\* the bar a response row fills: bar := numrows - 1 - row
GdaxBarIndex(row, numrows) == numrows + 1 - row

\* the quote q of one window
GdaxWindowQuote(symbol, bars) ==
    LET numrows == Len(bars)
        rowOf(bar) == CHOOSE row \in 1..numrows : GdaxBarIndex(row, numrows) = bar
    IN  [Symbol |-> symbol,
         Date |-> [bar \in 1..numrows |-> TimeUnix(bars[rowOf(bar)][1])],
         Open |-> [bar \in 1..numrows |-> bars[rowOf(bar)][2]],
         High |-> [bar \in 1..numrows |-> bars[rowOf(bar)][3]],
         Low |-> [bar \in 1..numrows |-> bars[rowOf(bar)][4]],
         Close |-> [bar \in 1..numrows |-> bars[rowOf(bar)][5]],
         Volume |-> [bar \in 1..numrows |-> bars[rowOf(bar)][6]]]

\* AppendQuote without the append of the volumes
AppendQuote_VolumeKept(quote, q) ==
    [Symbol |-> quote.Symbol, Date |-> quote.Date \o q.Date, Open |-> quote.Open \o q.Open,
     High |-> quote.High \o q.High, Low |-> quote.Low \o q.Low,
     Close |-> quote.Close \o q.Close, Volume |-> quote.Volume]

\* quote.X = append(quote.X, q.X...)
AppendQuote(quote, q) ==
    [Symbol |-> quote.Symbol, Date |-> quote.Date \o q.Date, Open |-> quote.Open \o q.Open,
     High |-> quote.High \o q.High, Low |-> quote.Low \o q.Low,
     Close |-> quote.Close \o q.Close, Volume |-> quote.Volume \o q.Volume]

\* NextStartBar without the step between two windows
NextStartBar_NoGap(endBar, step) == endBar

\* startBar = endBar.Add(step)
NextStartBar(endBar, step) == endBar + step

\* the first window: endBar is cut to end
FirstEndBar(start, end, step) ==
    IF start + maxBars * step > end THEN end ELSE start + maxBars * step

\* GdaxFailure that returns what the earlier windows gave
GdaxFailure_Partial(quote) == quote

\* client.Do fails: return NewQuote("", 0), err
GdaxFailure(quote) == NewQuote("", 0)

\* the statements before the loop
GdaxBegin ==
    /\ UNCHANGED <<codec, batch, util>>
    /\ fetch.adapter = "gdax"
    /\ fetch.pc = "call"
    /\ LET granularity == Granularity(fetch.period)
       IN  fetch' = [fetch EXCEPT !.pc = "loop", !.granularity = granularity,
                       !.q = [NewQuote("", 0) EXCEPT !.Symbol = fetch.symbol],
                       !.startBar = fetch.start,
                       !.endBar = FirstEndBar(fetch.start, fetch.end, granularity)]

\* one iteration of the loop: the request, the decoding, the append, the
\* sleep, the next window
GdaxWindow ==
    /\ UNCHANGED <<codec, batch, util>>
    /\ fetch.adapter = "gdax"
    /\ fetch.pc = "loop"
    /\ fetch.startBar < fetch.end
    /\ LET step == fetch.granularity
           f == [fetch EXCEPT !.requests =
                    Append(@, [Request("gdax") EXCEPT !.start = fetch.startBar,
                                 !.end = fetch.endBar, !.granularity = fetch.granularity])]
           next(g, bars) ==
               [g EXCEPT !.q = AppendQuote(@, GdaxWindowQuote(fetch.symbol, bars)),
                         !.windows = Append(@, bars),
                         !.startBar = NextStartBar(fetch.endBar, step),
                         !.endBar = NextStartBar(fetch.endBar, step) + maxBars * step]
       IN  \/ fetch' = Return(f, GdaxFailure(fetch.q), "network")
           \/ \* json.Unmarshal fails: the error is logged, bars stays empty
              fetch' = next([f EXCEPT !.badJSON = TRUE], <<>>)
           \/ fetch' = next(f, Candles(fetch.book, fetch.startBar, fetch.endBar))

\* the loop condition fails: return quote, nil
GdaxReturn ==
    /\ UNCHANGED <<codec, batch, util>>
    /\ fetch.adapter = "gdax"
    /\ fetch.pc = "loop"
    /\ ~(fetch.startBar < fetch.end)
    /\ fetch' = Return(fetch, fetch.q, "nil")

GdaxPeriods == {Min1, Min60, Weekly, Monthly}
\* the lengths of the requested range, in steps, around the window boundaries
SpanSteps == {k * maxBars + d : k \in 0..MaxWindows, d \in (-1)..3}
\* the intervals, in steps after start, the exchange may hold a candle for
GridSteps == UNION {{k * (maxBars + 1), k * (maxBars + 1) + maxBars} :
                       k \in 0..(MaxWindows - 1)}

InitGdax ==
    \E period \in GdaxPeriods, m \in SpanSteps, e \in {0, 1}, grid \in SUBSET GridSteps :
       LET g == Granularity(period)
       IN  fetch = [FetchIdle EXCEPT !.adapter = "gdax", !.pc = "call", !.symbol = "spy",
                      !.period = period, !.start = UnixEpoch,
                      !.end = UnixEpoch + m * g + e,
                      !.book = {UnixEpoch + j * g : j \in grid}]


(***************************************************************************)
(* The batch functions over a symbol list: NewQuotesFromYahooSyms,         *)
(* NewQuotesFromGoogleSyms, NewQuotesFromTiingoSyms, NewQuotesFromGdaxSyms.*)
(***************************************************************************)
BatchFns == {"Yahoo", "Google", "Tiingo", "Gdax"}
BatchSymbols == {"spy", "aapl", "ibm"}

\* what one call of the single-symbol function of a batch function can end
\* in: a panic, an error with the empty Quote, or a Quote of the symbol
FetchResults(fn, symbol, period) ==
    LET failed == {[panic |-> FALSE, err |-> "error", q |-> NewQuote("", 0)]}
        fetched == {[panic |-> FALSE, err |-> "nil", q |-> NewQuote(symbol, n)] : n \in 0..1}
        panicked == {[panic |-> TRUE, err |-> "nil", q |-> NewQuote("", 0)]}
    IN  CASE fn = "Yahoo" -> IF YahooRejects(period) THEN failed
                             ELSE failed \cup fetched \cup panicked
          [] fn = "Google" -> failed \cup fetched \cup panicked
          [] fn = "Tiingo" -> failed \cup fetched \cup panicked
          [] OTHER -> failed \cup fetched

\* Collect without the test of err
Collect_Always(quotes, quote, err) == Append(quotes, quote)

\* if err == nil { quotes = append(quotes, quote) }
Collect(quotes, quote, err) == IF err = "nil" THEN Append(quotes, quote) ELSE quotes

\* time.Millisecond, in nanoseconds
Millisecond == Pow10(6)

\* the values the caller gives the global Delay; init() sets 100
Delays == {100, 250}

\* SleepFor with the value Delay had at init()
SleepFor_Default(delay) == 100 * Millisecond

\* the argument of time.Sleep: Delay * time.Millisecond
SleepFor(delay) == delay * Millisecond

\* Delay is the package's global; sleeps counts the calls of time.Sleep and
\* slept is the argument of the last one
BatchIdle == [pc |-> "idle", fn |-> "", symbols |-> <<>>, period |-> Daily, i |-> 1,
              errs |-> <<>>, quotes |-> <<>>, err |-> "none",
              Delay |-> 100, sleeps |-> 0, slept |-> 0]

BatchInputs ==
    \E fn \in BatchFns, symbols \in SeqsUpTo(BatchSymbols, MaxSyms), period \in {Daily, Weekly} :
       batch = [BatchIdle EXCEPT !.pc = "loop", !.fn = fn, !.symbols = symbols,
                  !.period = period]

\* one iteration of the range over symbols: the fetch, the append, the sleep
BatchIteration ==
    /\ UNCHANGED <<codec, fetch, util>>
    /\ batch.pc = "loop"
    /\ batch.i <= Len(batch.symbols)
    /\ \E r \in FetchResults(batch.fn, batch.symbols[batch.i], batch.period) :
          batch' = IF r.panic THEN [batch EXCEPT !.pc = "panic"]
                   ELSE [batch EXCEPT !.i = @ + 1, !.errs = Append(@, r.err),
                           !.quotes = Collect(@, r.q, r.err),
                           !.sleeps = @ + 1, !.slept = SleepFor(batch.Delay)]

\* the caller assigns the global Delay while the batch runs
SetDelay ==
    /\ UNCHANGED <<codec, fetch, util>>
    /\ batch.pc = "loop"
    /\ \E d \in Delays \ {batch.Delay} : batch' = [batch EXCEPT !.Delay = d]

\* BatchError that reports a failed fetch
BatchError_Failed(errs) ==
    IF \E i \in 1..Len(errs) : errs[i] # "nil" THEN "error" ELSE "nil"

\* the error of return quotes, nil
BatchError(errs) == "nil"

\* return quotes, nil
BatchReturn ==
    /\ UNCHANGED <<codec, fetch, util>>
    /\ batch.pc = "loop"
    /\ batch.i > Len(batch.symbols)
    /\ batch' = [batch EXCEPT !.pc = "done", !.err = BatchError(batch.errs)]

(***************************************************************************)
(* The symbol lists (NewMarketList, NewEtfList), the charting output       *)
(* (Highstock) and parseHistorical of the older Yahoo adapter.  A string   *)
(* of the lists is a sequence of characters.                               *)
(***************************************************************************)
LowerCase == <<"a", "b", "c", "d", "e", "f", "g", "h", "i", "j", "k", "l", "m",
               "n", "o", "p", "q", "r", "s", "t", "u", "v", "w", "x", "y", "z">>
UpperCase == <<"A", "B", "C", "D", "E", "F", "G", "H", "I", "J", "K", "L", "M",
               "N", "O", "P", "Q", "R", "S", "T", "U", "V", "W", "X", "Y", "Z">>
DigitChars == <<"0", "1", "2", "3", "4", "5", "6", "7", "8", "9">>
\* the characters of the model in the order of their bytes
Ascii == <<"\n", " ", ".">> \o DigitChars \o UpperCase \o LowerCase \o <<"|">>

Byte(c) == CHOOSE i \in 1..Len(Ascii) : Ascii[i] = c

\* strings.ToLower
ToLower(str) ==
    [i \in 1..Len(str) |->
        IF \E k \in 1..Len(UpperCase) : UpperCase[k] = str[i]
        THEN LowerCase[CHOOSE k \in 1..Len(UpperCase) : UpperCase[k] = str[i]]
        ELSE str[i]]

\* strings.TrimSpace
TrimSpace(str) ==
    LET idx == {i \in 1..Len(str) : str[i] \notin {" ", "\n"}}
    IN  IF idx = {} THEN <<>>
        ELSE SubSeq(str, CHOOSE i \in idx : \A j \in idx : i <= j,
                         CHOOSE i \in idx : \A j \in idx : j <= i)

\* MatchString accepting the digits as well
MatchString_AlphaNum(sym) ==
    /\ Len(sym) >= 1
    /\ \A i \in 1..Len(sym) :
          \/ \E k \in 1..Len(LowerCase) : LowerCase[k] = sym[i]
          \/ \E k \in 1..Len(DigitChars) : DigitChars[k] = sym[i]

\* regexp "^[a-z]+$"
MatchString(sym) ==
    /\ Len(sym) >= 1
    /\ \A i \in 1..Len(sym) : \E k \in 1..Len(LowerCase) : LowerCase[k] = sym[i]

\* a < b as Go compares strings: byte by byte, a proper prefix first
StringLess(a, b) ==
    \E i \in 1..Len(b) :
       /\ i <= Len(a) + 1
       /\ \A j \in 1..(i - 1) : a[j] = b[j]
       /\ (i <= Len(a) => Byte(a[i]) < Byte(b[i]))

RECURSIVE SortStrings(_)
\* sort.Strings
SortStrings(ss) ==
    IF ss = <<>> THEN <<>>
    ELSE LET i == CHOOSE m \in 1..Len(ss) : \A j \in 1..Len(ss) : ~StringLess(ss[j], ss[m])
         IN  <<ss[i]>> \o SortStrings(SubSeq(ss, 1, i - 1) \o SubSeq(ss, i + 1, Len(ss)))

RECURSIVE Split(_, _)
\* strings.Split(str, sep) for a separator of one character
Split(str, sep) ==
    IF \A i \in 1..Len(str) : str[i] # sep THEN <<str>>
    ELSE LET i == CHOOSE j \in 1..Len(str) :
                     str[j] = sep /\ \A m \in 1..(j - 1) : str[m] # sep
         IN  <<SubSeq(str, 1, i - 1)>> \o Split(SubSeq(str, i + 1, Len(str)), sep)

RECURSIVE Join(_, _)
\* strings.Join(parts, sep)
Join(parts, sep) ==
    IF parts = <<>> THEN <<>>
    ELSE IF Len(parts) = 1 THEN Head(parts)
    ELSE Head(parts) \o <<sep>> \o Join(Tail(parts), sep)

\* PriceH of dl bars
NewPriceH(dl) ==
    [Date |-> Fill(dl, ZeroTime), Open |-> Fill(dl, 0), High |-> Fill(dl, 0),
     Low |-> Fill(dl, 0), Close |-> Fill(dl, 0), Volume |-> Fill(dl, 0),
     Adj |-> Fill(dl, 0)]

\* the state of one call of a list or charting function
UtilIdle ==
    [pc |-> "idle", fn |-> "", market |-> "", csvdata |-> <<>>, buf |-> <<>>,
     s |-> NoQuote, qs |-> <<>>, adjustPrice |-> FALSE, requests |-> 0,
     symbols |-> <<>>, out |-> <<>>, prices |-> NewPriceH(0), err |-> "none",
     message |-> <<>>, p |-> <<0, 0>>, dport |-> 0, log |-> <<>>, dialed |-> <<>>]

UtilReturn(u, err) == [u EXCEPT !.pc = "done", !.err = err]
UtilPanic(u) == [u EXCEPT !.pc = "panic"]

(***************************************************************************)
(* NewMarketList                                                           *)
(***************************************************************************)
ValidMarkets ==
    {"etf", "nasdaq", "nyse", "amex", "megacap", "largecap", "midcap", "smallcap",
     "microcap", "nanocap", "basicindustries", "capitalgoods", "consumerdurables",
     "consumernondurable", "consumerservices", "energy", "finance", "healthcare",
     "miscellaneous", "utilities", "technology", "transportation"}

ValidMarket(market) == market \in ValidMarkets

\* the switch on the market, which has no case for "etf": the url stays ""
MarketURL(market) == IF market = "etf" THEN "" ELSE market

RECURSIVE MarketSymbols(_, _)
\* the loop over the rows from `row` on: the symbols that match
MarketSymbols(csvdata, row) ==
    IF row > Len(csvdata) THEN <<>>
    ELSE LET sym == TrimSpace(ToLower(csvdata[row][1]))
         IN  (IF MatchString(sym) THEN <<sym>> ELSE <<>>)
             \o MarketSymbols(csvdata, row + 1)

MarketHeader == << <<"S", "y", "m", "b", "o", "l">>, <<"N", "a", "m", "e">> >>
Tickers == { <<"a", "a", "p", "l">>, <<"B", "R", "K", ".", "B">>, <<"7", "2", "0", "3">>,
             <<" ", "I", "b", "m", " ">>, <<>>, <<"A", " ", "B">>, <<"Z">> }
\* the rows of a listing, and a row cut short
MarketRows == { <<t, <<"n">> >> : t \in Tickers } \cup { << <<"c", "u", "t">> >> }
MarketBodies ==
    { <<MarketHeader>> \o rows : rows \in SeqsUpTo(MarketRows, MaxTickers) } \cup { <<>> }

\* NewMarketList(market)
MarketList ==
    /\ UNCHANGED <<codec, fetch, batch>>
    /\ util.fn = "NewMarketList"
    /\ util.pc = "call"
    /\ IF ~ValidMarket(util.market)
       THEN util' = UtilReturn(util, "invalid market")
       ELSE LET u == [util EXCEPT !.requests = @ + 1]
            IN  \/ \* http.Get fails (as it does on the empty url)
                   util' = UtilReturn(u, "network")
                \/ /\ MarketURL(util.market) # ""
                   /\ util' =
                        IF ~ReadAllOk(util.csvdata) THEN UtilReturn(u, "csv")
                        ELSE UtilReturn(
                               [u EXCEPT !.symbols =
                                   SortStrings(MarketSymbols(util.csvdata, 2))], "nil")

InitMarketList ==
    \E market \in {"nasdaq", "etf", "allmarkets"}, csvdata \in MarketBodies :
       util = [UtilIdle EXCEPT !.pc = "call", !.fn = "NewMarketList",
                 !.market = market, !.csvdata = csvdata]

(***************************************************************************)
(* NewEtfList                                                              *)
(***************************************************************************)
\* the test of a line's columns; cols[6] does not exist in a line of 6 columns
EtfPanics(cols) == Len(cols) > 5 /\ cols[5] = <<"Y">> /\ Len(cols) < 7
\* EtfKeeps without the test-issue column
EtfKeeps_AnyTest(cols) == Len(cols) > 5 /\ cols[5] = <<"Y">>

\* len(cols) > 5 && cols[4] == "Y" && cols[6] == "N"
EtfKeeps(cols) == Len(cols) > 5 /\ cols[5] = <<"Y">> /\ cols[7] = <<"N">>

RECURSIVE EtfSymbols(_)
\* the loop over the lines
EtfSymbols(lines) ==
    IF lines = <<>> THEN <<>>
    ELSE LET cols == Split(Head(lines), "|")
         IN  (IF EtfKeeps(cols) THEN <<ToLower(cols[1])>> ELSE <<>>)
             \o EtfSymbols(Tail(lines))

\* a line of the directory: ACT Symbol|Security Name|Exchange|CQS Symbol|ETF|
\* Round Lot Size|Test Issue|NASDAQ Symbol, cut after `n` columns
EtfLine(sym, etf, test, n) ==
    Join(SubSeq(<<sym, <<"n">>, <<"P">>, sym, etf, <<"1">>, test, sym>>, 1, n), "|")

EtfLines ==
    { EtfLine(sym, etf, test, 8) :
         sym \in { <<"S", "P", "Y">>, <<"A", "g", "g">> },
         etf \in { <<"Y">>, <<"N">> }, test \in { <<"Y">>, <<"N">> } }
    \cup { EtfLine(<<"Q", ".", "A">>, <<"Y">>, <<"N">>, n) : n \in 5..7 }
    \cup { <<>> }

\* NewEtfList()
EtfList ==
    /\ UNCHANGED <<codec, fetch, batch>>
    /\ util.fn = "NewEtfList"
    /\ util.pc = "call"
    /\ LET u == [util EXCEPT !.requests = @ + 1]
           lines == Split(util.buf, "\n")
       IN  \/ \* getAnonFTP fails
              util' = UtilReturn(u, "ftp")
           \/ util' =
                IF \E i \in 1..Len(lines) : EtfPanics(Split(lines[i], "|"))
                THEN UtilPanic(u)
                ELSE UtilReturn([u EXCEPT !.symbols = SortStrings(EtfSymbols(lines))], "nil")

InitEtfList ==
    \E lines \in SeqsUpTo(EtfLines, MaxEtfLines), finalNL \in BOOLEAN :
       util = [UtilIdle EXCEPT !.pc = "call", !.fn = "NewEtfList",
                 !.buf = Join(lines, "\n") \o (IF finalNL THEN <<"\n">> ELSE <<>>)]

(***************************************************************************)
(* Quote.Highstock and Quotes.Highstock.  The output is the sequence of    *)
(* the pieces written to the buffer.                                       *)
(***************************************************************************)
Piece(k, sym, f, comma) == [k |-> k, sym |-> sym, f |-> f, comma |-> comma]

\* t.UnixNano() / 1000000
UnixMilli(t) == (t - UnixEpoch) * 1000

\* TupleComma writing the comma after every tuple
TupleComma_Always(bar, n) == ","

\* comma := ","; if bar == len(q.Close)-1 { comma = "" }
TupleComma(bar, n) == IF bar = n THEN "" ELSE ","

\* "],\n" after every series but the last, "]\n" after the last
SeriesComma(sym, n) == IF sym < n THEN "," ELSE ""

\* fmt.Sprintf("[%d,%.2f,%.2f,%.2f,%.2f,%.0f]%s\n", ...)
HighstockTuple(q, bar) ==
    Piece("tuple", "",
          <<NumTxt(0, UnixMilli(q.Date[bar])), FormatFloat(q.Open[bar], 2),
            FormatFloat(q.High[bar], 2), FormatFloat(q.Low[bar], 2),
            FormatFloat(q.Close[bar], 2), FormatFloat(q.Volume[bar], 0)>>,
          TupleComma(bar, Len(q.Close)))

RECURSIVE HighstockTuples(_, _)
HighstockTuples(q, bar) ==
    IF bar > Len(q.Close) THEN <<>>
    ELSE <<HighstockTuple(q, bar)>> \o HighstockTuples(q, bar + 1)

\* Quote.Highstock
QuoteHighstock(q) ==
    <<Piece("[", "", <<>>, "")>> \o HighstockTuples(q, 1) \o <<Piece("]", "", <<>>, "")>>

RECURSIVE SeriesHighstock(_, _)
\* the loop over the series: the key is written at the first bar only
SeriesHighstock(qs, sym) ==
    IF sym > Len(qs) THEN <<>>
    ELSE (IF Len(qs[sym].Close) >= 1 THEN <<Piece("key", qs[sym].Symbol, <<>>, "")>>
          ELSE <<>>)
         \o HighstockTuples(qs[sym], 1)
         \o <<Piece("]", "", <<>>, SeriesComma(sym, Len(qs)))>>
         \o SeriesHighstock(qs, sym + 1)

\* Quotes.Highstock
QuotesHighstock(qs) ==
    <<Piece("{", "", <<>>, "")>> \o SeriesHighstock(qs, 1) \o <<Piece("}", "", <<>>, "")>>

HighstockQuote ==
    /\ UNCHANGED <<codec, fetch, batch>>
    /\ util.fn = "Quote.Highstock"
    /\ util.pc = "call"
    /\ util' = UtilReturn([util EXCEPT !.out = QuoteHighstock(util.s)], "nil")

HighstockQuotes ==
    /\ UNCHANGED <<codec, fetch, batch>>
    /\ util.fn = "Quotes.Highstock"
    /\ util.pc = "call"
    /\ util' = UtilReturn([util EXCEPT !.out = QuotesHighstock(util.qs)], "nil")

\* the series a Quotes to chart is made of
SeriesSet ==
    {QuoteOf(symbol, bars) : symbol \in Symbols,
                             bars \in SeqsUpTo({b \in BarSet : b.Date < 180}, MaxRows)}

InitHighstock ==
    \/ \E symbol \in Symbols, bars \in SeqsUpTo(BarSet, MaxLines) :
          util = [UtilIdle EXCEPT !.pc = "call", !.fn = "Quote.Highstock",
                    !.s = QuoteOf(symbol, bars)]
    \/ \E qs \in SeqsUpTo(SeriesSet, MaxSeries) :
          util = [UtilIdle EXCEPT !.pc = "call", !.fn = "Quotes.Highstock", !.qs = qs]

(***************************************************************************)
(* parseHistorical (src/yahoo.go), which GetDailyHistory applies to the    *)
(* records of the download.                                                *)
(***************************************************************************)
HistHeader == <<Txt("Date"), Txt("Open"), Txt("High"), Txt("Low"), Txt("Close"),
                Txt("Volume"), Txt("Adj Close")>>
\* a data row: date d, close c and adjusted close a
HistRow(d, c, a) == <<DayTxt(d), NumTxt(2, 600), NumTxt(2, 800), NumTxt(2, 400),
                      NumTxt(2, 100 * c), NumTxt(0, 1000 + d), NumTxt(2, 100 * a)>>
HistRows == {HistRow(d, ca[1], ca[2]) : d \in 1..3, ca \in {<<4, 2>>, <<2, 4>>}}
            \cup {<<Txt("x"), NumTxt(2, 600), NumTxt(2, 800), NumTxt(2, 400),
                    NumTxt(2, 400), NumTxt(0, 1000), NumTxt(2, 200)>>}
\* the records ReadAll can hand over: a table, no record, or one column only
HistBodies ==
    {<<HistHeader>> \o rows : rows \in SeqsUpTo(HistRows, MaxRows)}
    \cup {<<>>, <<<<Txt("error")>>, <<Txt("Not Found")>>>>, <<<<Txt("Date")>>, <<DayTxt(1)>>>>}

\* parseHistoricalRow fails on the date, and reads seven columns
RowFails(data) == data[1].k # "day"
RowPanics(data) == ~RowFails(data) /\ Len(data) < 7

\* the bar of one row
HistBar(data, adjustPrice) ==
    LET o == ParseFloat(data[2])
        h == ParseFloat(data[3])
        l == ParseFloat(data[4])
        c == ParseFloat(data[5])
        v == ParseFloat(data[6])
        a == ParseFloat(data[7])
        factor == FloatDiv(a, c)
    IN  IF adjustPrice
        THEN [Date |-> ParseDay(data[1]), Open |-> FloatMul(o, factor),
              High |-> FloatMul(h, factor), Low |-> FloatMul(l, factor),
              Close |-> FloatMul(c, factor), Volume |-> v, Adj |-> FloatMul(Micro, factor)]
        ELSE [Date |-> ParseDay(data[1]), Open |-> o, High |-> h, Low |-> l, Close |-> c,
              Volume |-> v, Adj |-> a]

\* HistIndex without the reversal
HistIndex_Kept(k, dl) == k

\* prices.X[dl-k]: the bar that data row k (1 is the first after the header) fills
HistIndex(k, dl) == dl - k + 1

\* parseHistorical(data, adjustPrice): the rows are read in order up to the
\* first one that fails
parseHistorical(data, adjustPrice) ==
    LET dl == Len(data) - 1
        stop == {k \in 1..dl : RowFails(data[k + 1]) \/ RowPanics(data[k + 1])}
        last == IF stop = {} THEN dl ELSE (CHOOSE k \in stop : \A m \in stop : k <= m) - 1
        rowOf(j) == CHOOSE k \in 1..dl : HistIndex(k, dl) = j
        val(j, field) == IF rowOf(j) <= last
                         THEN HistBar(data[rowOf(j) + 1], adjustPrice)[field]
                         ELSE NewPriceH(dl)[field][j]
        prices == [Date |-> [j \in 1..dl |-> val(j, "Date")],
                   Open |-> [j \in 1..dl |-> val(j, "Open")],
                   High |-> [j \in 1..dl |-> val(j, "High")],
                   Low |-> [j \in 1..dl |-> val(j, "Low")],
                   Close |-> [j \in 1..dl |-> val(j, "Close")],
                   Volume |-> [j \in 1..dl |-> val(j, "Volume")],
                   Adj |-> [j \in 1..dl |-> val(j, "Adj")]]
    IN  IF dl < 0 THEN [panic |-> TRUE, err |-> "nil", prices |-> NewPriceH(0)]
        ELSE IF stop = {} THEN [panic |-> FALSE, err |-> "nil", prices |-> prices]
        ELSE IF RowPanics(data[last + 2])
             THEN [panic |-> TRUE, err |-> "nil", prices |-> NewPriceH(0)]
        ELSE [panic |-> FALSE, err |-> "parse", prices |-> prices]

\* GetDailyHistory: loadHistoricalPrice, then parseHistorical
DailyHistory ==
    /\ UNCHANGED <<codec, fetch, batch>>
    /\ util.fn = "GetDailyHistory"
    /\ util.pc = "call"
    /\ LET u == [util EXCEPT !.requests = @ + 1]
           r == parseHistorical(util.csvdata, util.adjustPrice)
       IN  \/ util' = UtilReturn([u EXCEPT !.prices = NewPriceH(0)], "network")
           \/ util' = IF ~ReadAllOk(util.csvdata)
                      THEN UtilReturn([u EXCEPT !.prices = NewPriceH(0)], "csv")
                      ELSE IF r.panic THEN UtilPanic(u)
                      ELSE UtilReturn([u EXCEPT !.prices = r.prices], r.err)

InitDailyHistory ==
    \E csvdata \in HistBodies, adjustPrice \in BOOLEAN :
       util = [UtilIdle EXCEPT !.pc = "call", !.fn = "GetDailyHistory",
                 !.csvdata = csvdata, !.adjustPrice = adjustPrice]

(***************************************************************************)
(* getAnonFTP: the control connection, the commands, the PASV reply and    *)
(* the data connection.                                                    *)
(***************************************************************************)
RECURSIVE Itoa(_)
\* strconv.Itoa(n), n >= 0
Itoa(n) == IF n < 10 THEN <<DigitChars[n + 1]>>
           ELSE Itoa(n \div 10) \o <<DigitChars[(n % 10) + 1]>>

IsDigits(str) ==
    Len(str) >= 1 /\ \A i \in 1..Len(str) : \E k \in 1..Len(DigitChars) : DigitChars[k] = str[i]

RECURSIVE DigitsValue(_)
DigitsValue(str) ==
    IF str = <<>> THEN 0
    ELSE 10 * DigitsValue(SubSeq(str, 1, Len(str) - 1))
         + (CHOOSE k \in 1..Len(DigitChars) : DigitChars[k] = str[Len(str)]) - 1

\* strconv.Atoi with its error dropped: 0 for a text that is no number
Atoi(str) == IF IsDigits(str) THEN DigitsValue(str) ELSE 0

\* strings.Index(str, c): the 0-based place of the first c, or -1
Index(str, c) ==
    IF \A i \in 1..Len(str) : str[i] # c THEN -1
    ELSE (CHOOSE i \in 1..Len(str) : str[i] = c /\ \A j \in 1..(i - 1) : str[j] # c) - 1

\* message[start:end] panics unless 0 <= start <= end <= len; s[len(s)-2]
\* panics when the text between the parentheses holds no comma
PasvPanics(message) ==
    LET start == Index(message, "(")
        end == Index(message, ")")
    IN  \/ start < 0
        \/ end < start
        \/ Len(Split(SubSeq(message, start + 1, end), ",")) < 2

\* DataPort with the two bytes the other way round
DataPort_Swapped(l1, l2) == l2 * 256 + l1

\* dport := l1*256 + l2
DataPort(l1, l2) == l1 * 256 + l2

\* the port of the data connection, from the PASV reply
PasvPort(message) ==
    LET start == Index(message, "(")
        end == Index(message, ")")
        parts == Split(SubSeq(message, start + 1, end), ",")
    IN  DataPort(Atoi(parts[Len(parts) - 1]), Atoi(parts[Len(parts)]))

\* "Entering Passive Mode (h1,h2,h3,h4,p1,p2)."
PasvMessage(p1, p2) ==
    <<"O", "K", " ", "(">>
    \o Join(<<Itoa(10), Itoa(0), Itoa(0), Itoa(7), Itoa(p1), Itoa(p2)>>, ",")
    \o <<")", ".">>

PortBytes == {0, 1, 20, 255}

\* the replies that are not of the format: none, a refusal, one number only,
\* the parentheses the wrong way round, two numbers
OtherReplies ==
    { <<>>, <<"N", "o">>, <<"(", "5", ")">>, <<")", "5", ",", "6", "(">>,
      <<"(", "7", ",", "9", ")">> }

\* net.DialTimeout of the control connection
FtpConnect ==
    /\ UNCHANGED <<codec, fetch, batch>>
    /\ util.fn = "getAnonFTP"
    /\ util.pc = "call"
    /\ \/ util' = UtilReturn(util, "dial")
       \/ util' = [util EXCEPT !.pc = "login", !.log = Append(@, "dial control")]

\* USER, PASS and CWD; the replies are read and not looked at
FtpLogin ==
    /\ UNCHANGED <<codec, fetch, batch>>
    /\ util.fn = "getAnonFTP"
    /\ util.pc = "login"
    /\ util' = [util EXCEPT !.pc = "pasv", !.log = @ \o <<"USER", "PASS", "CWD">>]

\* PASV, its reply, and the port of the data connection
FtpPasv ==
    /\ UNCHANGED <<codec, fetch, batch>>
    /\ util.fn = "getAnonFTP"
    /\ util.pc = "pasv"
    /\ LET u == [util EXCEPT !.log = @ \o <<"PASV", "reply">>]
       IN  util' = IF PasvPanics(util.message) THEN UtilPanic(u)
                   ELSE [u EXCEPT !.pc = "retr", !.dport = PasvPort(util.message)]

\* RETR, the data connection to addr:dport, and the reading of the file
FtpRetr ==
    /\ UNCHANGED <<codec, fetch, batch>>
    /\ util.fn = "getAnonFTP"
    /\ util.pc = "retr"
    /\ LET u == [util EXCEPT !.log = @ \o <<"RETR", "dial data">>,
                             !.dialed = Itoa(util.dport)]
       IN  \/ \* the dial fails: dconn is nil and defer dconn.Close() panics
              util' = UtilPanic(u)
           \/ util' = UtilReturn(u, "read")
           \/ util' = UtilReturn(u, "nil")

InitFtp ==
    \/ \E p1 \in PortBytes, p2 \in PortBytes :
          util = [UtilIdle EXCEPT !.pc = "call", !.fn = "getAnonFTP",
                    !.message = PasvMessage(p1, p2), !.p = <<p1, p2>>]
    \/ \E message \in OtherReplies :
          util = [UtilIdle EXCEPT !.pc = "call", !.fn = "getAnonFTP", !.message = message]

(***************************************************************************)
(* The specifications.                                                     *)
(***************************************************************************)
NextCodec == Encode \/ DecodeQuote \/ DecodeQuotes

InitCodec == CodecInputs /\ fetch = FetchIdle /\ batch = BatchIdle /\ util = UtilIdle

SpecCodec == InitCodec /\ [][NextCodec]_vars

InitFetch ==
    /\ codec = CodecIdle /\ batch = BatchIdle /\ util = UtilIdle
    /\ (InitYahoo \/ InitTiingo \/ InitGdax)

NextFetch ==
    \/ YahooCheckPeriod \/ YahooHome \/ YahooCrumb \/ YahooDownload \/ YahooNextCall
    \/ TiingoDaily
    \/ GdaxBegin \/ GdaxWindow \/ GdaxReturn

SpecFetch == InitFetch /\ [][NextFetch]_vars

\* a call that is under way goes on: the runtime schedules its goroutine
SpecFetchLive == SpecFetch /\ WF_vars(NextFetch)

NextBatch == BatchIteration \/ SetDelay \/ BatchReturn

InitBatch == BatchInputs /\ codec = CodecIdle /\ fetch = FetchIdle /\ util = UtilIdle

SpecBatch == InitBatch /\ [][NextBatch]_vars

\* the functions that return a Quote: the decoders and the adapters
InitQuote == InitCodec \/ InitFetch

NextQuote == NextCodec \/ NextFetch

SpecQuote == InitQuote /\ [][NextQuote]_vars

NextUtil ==
    \/ MarketList \/ EtfList \/ HighstockQuote \/ HighstockQuotes \/ DailyHistory
    \/ FtpConnect \/ FtpLogin \/ FtpPasv \/ FtpRetr

InitUtil ==
    /\ codec = CodecIdle /\ fetch = FetchIdle /\ batch = BatchIdle
    /\ (InitMarketList \/ InitEtfList \/ InitHighstock \/ InitDailyHistory \/ InitFtp)

SpecUtil == InitUtil /\ [][NextUtil]_vars

(***************************************************************************)
(* The properties checked.                                                 *)
(***************************************************************************)
StrictlyAscending(s) == \A i \in 1..(Len(s) - 1) : s[i] < s[i + 1]
StrictlyDescending(s) == \A i \in 1..(Len(s) - 1) : s[i] > s[i + 1]
Reverse(s) == [i \in 1..Len(s) |-> s[Len(s) + 1 - i]]
CeilDiv(x, d) == (x + d - 1) \div d
SymbolsOf(qs) == [k \in 1..Len(qs) |-> qs[k].Symbol]

RECURSIVE Fetched(_, _, _)
\* the symbols, from the i-th on, whose fetch returned a nil error
Fetched(symbols, errs, i) ==
    IF i > Len(symbols) THEN <<>>
    ELSE (IF errs[i] = "nil" THEN <<symbols[i]>> ELSE <<>>) \o Fetched(symbols, errs, i + 1)

\* C1: a batch function returns exactly the input symbols whose fetch returned
\* a nil error, in input order, one series for each; a symbol whose fetch
\* failed has no entry.
C1_BatchKeepsTheFetched ==
    batch.pc = "done" =>
        /\ Len(batch.errs) = Len(batch.symbols)
        /\ SymbolsOf(batch.quotes) = Fetched(batch.symbols, batch.errs, 1)

\* three symbols, the fetch of the middle one failed
C1_MiddleFailed ==
    /\ batch.pc = "done"
    /\ Len(batch.symbols) = 3
    /\ batch.errs = <<"nil", "error", "nil">>
    /\ Len(batch.quotes) = 2

RECURSIVE FirstSeen(_, _)
\* the symbols of the lines, each at its first appearance
FirstSeen(lines, seen) ==
    IF lines = <<>> THEN <<>>
    ELSE LET sym == Head(lines)[1].s
         IN  (IF sym \in seen THEN <<>> ELSE <<sym>>)
             \o FirstSeen(Tail(lines), seen \cup {sym})

RECURSIVE Carrying(_, _)
\* the lines that carry the symbol, in the order of the text
Carrying(lines, sym) ==
    IF lines = <<>> THEN <<>>
    ELSE (IF Head(lines)[1].s = sym THEN <<Head(lines)>> ELSE <<>>)
         \o Carrying(Tail(lines), sym)

\* C2: NewQuotesFromCSV returns one series per distinct symbol, in the order
\* of first appearance, each holding exactly the rows of its symbol in file
\* order, with or without a final newline and whatever the order of the range
\* over the map.
C2_SeriesPerSymbolInFirstSeenOrder ==
    ( /\ codec.fn = "NewQuotesFromCSV"
      /\ codec.pc \in {"done", "panic"}
      /\ \A i \in 1..Len(codec.lines) : Len(codec.lines[i]) = 7 ) =>
        /\ codec.pc = "done"
        /\ SymbolsOf(codec.res.qs) = FirstSeen(codec.lines, {})
        /\ \A k \in 1..Len(codec.res.qs) :
              LET rows == Carrying(codec.lines, codec.res.qs[k].Symbol)
              IN  /\ codec.res.qs[k].Date = [i \in 1..Len(rows) |-> ParseMinute(rows[i][2])]
                  /\ codec.res.qs[k].Close = [i \in 1..Len(rows) |-> ParseFloat(rows[i][6])]

\* C3: NewQuoteFromCSV on a header and n >= 1 data lines without a final
\* newline returns n bars, the last one closing at the close of the last line.
C3_EveryDataLineIsABar ==
    ( /\ codec.fn = "NewQuoteFromCSV"
      /\ codec.pc \in {"done", "panic"}
      /\ Len(codec.lines) >= 1
      /\ ~codec.finalNL
      /\ \A i \in 1..Len(codec.lines) : Len(codec.lines[i]) = 6 ) =>
        /\ codec.pc = "done"
        /\ Len(codec.res.q.Close) = Len(codec.lines)
        /\ codec.res.q.Close[Len(codec.lines)] = ParseFloat(codec.lines[Len(codec.lines)][5])

\* equal to the precision Quote.CSV prints
SameBar(q, s, i) ==
    /\ FormatMinute(q.Date[i]) = FormatMinute(s.Date[i])
    /\ FormatFloat(q.Open[i], 2) = FormatFloat(s.Open[i], 2)
    /\ FormatFloat(q.High[i], 2) = FormatFloat(s.High[i], 2)
    /\ FormatFloat(q.Low[i], 2) = FormatFloat(s.Low[i], 2)
    /\ FormatFloat(q.Close[i], 2) = FormatFloat(s.Close[i], 2)
    /\ FormatFloat(q.Volume[i], 6) = FormatFloat(s.Volume[i], 6)

\* C4: for a Quote s of at least one bar, NewQuoteFromCSV(s.Symbol, s.CSV())
\* equals s: the symbol, the number of bars, and each bar to the printed
\* precision, in the same order.
C4_RoundTrip ==
    ( /\ Len(codec.s.Close) >= 1
      /\ codec.pc \in {"done", "panic"} ) =>
        /\ codec.pc = "done"
        /\ codec.res.q.Symbol = codec.s.Symbol
        /\ Len(codec.res.q.Close) = Len(codec.s.Close)
        /\ \A i \in 1..Len(codec.s.Close) : SameBar(codec.res.q, codec.s, i)

\* the dates of the data rows of a Yahoo download
YahooDates(csvdata) == [i \in 1..(Len(csvdata) - 1) |-> ParseDay(csvdata[i + 1][1])]
TiingoDates(tiingo) == [i \in 1..Len(tiingo) |-> ParseDay(FirstTen(tiingo[i].date))]
Fetched0 == fetch.pc = "done" /\ fetch.err = "nil"

Cents(x) == x \div Pow10(4)

\* r is the float64 x * c / a
IsScaled(r, x, c, a) ==
    IF a = 0 THEN r = (IF x = 0 \/ c = 0 THEN NaN ELSE PosInf)
    ELSE r % Pow10(4) = 0 /\ Cents(r) * Cents(a) = Cents(x) * Cents(c)

\* C6: per row (o, h, l, c, a) NewQuoteFromYahoo returns (o, h, l, a) with
\* adjustQuote and (o*c/a, h*c/a, l*c/a, c) without; the date and the volume
\* are those of the row under both settings.
C6_AdjustmentRule ==
    (Fetched0 /\ fetch.adapter = "yahoo") =>
        /\ Len(fetch.q.Close) = Len(fetch.body) - 1
        /\ \A i \in 1..Len(fetch.q.Close) :
              LET rec == fetch.body[i + 1]
                  o == ParseFloat(rec[2])
                  h == ParseFloat(rec[3])
                  l == ParseFloat(rec[4])
                  c == ParseFloat(rec[5])
                  a == ParseFloat(rec[6])
              IN  /\ fetch.q.Date[i] = ParseDay(rec[1])
                  /\ fetch.q.Volume[i] = ParseFloat(rec[7])
                  /\ fetch.adjustQuote =>
                        /\ fetch.q.Open[i] = o /\ fetch.q.High[i] = h
                        /\ fetch.q.Low[i] = l /\ fetch.q.Close[i] = a
                  /\ ~fetch.adjustQuote =>
                        /\ IsScaled(fetch.q.Open[i], o, c, a)
                        /\ IsScaled(fetch.q.High[i], h, c, a)
                        /\ IsScaled(fetch.q.Low[i], l, c, a)
                        /\ fetch.q.Close[i] = c

\* a row of open 6, close 4 and adjusted close 2, fetched without adjustment
C6_UnadjustedRow ==
    /\ Fetched0
    /\ fetch.adapter = "yahoo"
    /\ ~fetch.adjustQuote
    /\ Len(fetch.q.Close) >= 1
    /\ ParseFloat(fetch.body[2][5]) = 4 * Micro
    /\ ParseFloat(fetch.body[2][6]) = 2 * Micro
    /\ fetch.q.Open[1] = 12 * Micro
    /\ fetch.q.Close[1] = 4 * Micro

C8_RequestsPerRange ==
    (Fetched0 /\ fetch.adapter = "gdax" /\ fetch.start < fetch.end) =>
        Len(fetch.requests) =
            CeilDiv(fetch.end - fetch.start, (maxBars + 1) * fetch.granularity)

\* a range of 201 steps, served by one request
C8_OneRequestFor201Steps ==
    /\ Fetched0
    /\ fetch.adapter = "gdax"
    /\ fetch.end - fetch.start = (maxBars + 1) * fetch.granularity
    /\ Len(fetch.requests) = 1

\* C8 (as claimed): the number of requests is ceil((end - start) / (200 * g)).
C8_RequestsPer200Steps ==
    (Fetched0 /\ fetch.adapter = "gdax" /\ fetch.start < fetch.end) =>
        Len(fetch.requests) = CeilDiv(fetch.end - fetch.start, maxBars * fetch.granularity)

RECURSIVE WindowTimes(_)
\* the times of the rows of the windows, each window reversed
WindowTimes(windows) ==
    IF windows = <<>> THEN <<>>
    ELSE Reverse([i \in 1..Len(Head(windows)) |-> TimeUnix(Head(windows)[i][1])])
         \o WindowTimes(Tail(windows))

\* C9: when every request succeeds, the result of NewQuoteFromGdax holds the
\* rows of all the windows (each window reversed, the windows in request
\* order), is strictly ascending in time, and holds no time twice.
C9_WindowsConcatenated ==
    (Fetched0 /\ fetch.adapter = "gdax") =>
        /\ Len(fetch.windows) = Len(fetch.requests)
        /\ fetch.q.Date = WindowTimes(fetch.windows)
        /\ Len(fetch.q.Close) = Len(WindowTimes(fetch.windows))
        /\ StrictlyAscending(fetch.q.Date)
        /\ \A i, j \in 1..Len(fetch.q.Date) : i # j => fetch.q.Date[i] # fetch.q.Date[j]

\* two windows of two candles each, one on each side of every window boundary
C9_TwoFullWindows ==
    /\ Fetched0
    /\ fetch.adapter = "gdax"
    /\ Len(fetch.windows) >= 2
    /\ Len(fetch.windows[1]) = 2
    /\ Len(fetch.windows[2]) = 2
    /\ Len(fetch.q.Date) = 4

\* C10: when the home-page GET fails, the token GET fails, or the token body
\* cannot be read, NewQuoteFromYahoo returns an error (it does not crash) and
\* never issues the download request.
C10_NoTokenNoDownload ==
    (fetch.adapter = "yahoo" /\ (fetch.homeFailed \/ fetch.crumbFailed # "no")) =>
        /\ fetch.pc # "panic"
        /\ \A i \in 1..Len(fetch.requests) : fetch.requests[i].kind # "download"
        /\ fetch.pc = "done" => fetch.err # "nil"

\* C11: when the body of a Tiingo or Gdax response is not the expected JSON,
\* the single-symbol fetch returns a non-nil error (so that the batch function
\* leaves the symbol out).
C11_BadJsonIsAnError ==
    (fetch.adapter \in {"tiingo", "gdax"} /\ fetch.badJSON /\ fetch.pc = "done") =>
        fetch.err # "nil"

\* C12: a Tiingo fetch called with an empty token returns a non-nil error
\* before any network request is issued.
C12_EmptyTokenRejected ==
    (fetch.adapter = "tiingo" /\ fetch.token = "" /\ fetch.pc # "call") =>
        /\ fetch.pc = "done"
        /\ fetch.err # "nil"
        /\ fetch.requests = <<>>

\* the number of times x occurs in a sequence
Count(seq, x) == Cardinality({i \in 1..Len(seq) : seq[i] = x})
LetterSet == {LowerCase[k] : k \in 1..Len(LowerCase)}
ListReturned(fn) == util.fn = fn /\ util.pc = "done" /\ util.err = "nil"

\* C13: NewMarketList, when the market is valid and the payload is read,
\* returns exactly the first-column values (lower-cased and trimmed) of the
\* rows after the header that consist of one or more letters a-z; every other
\* row is dropped.
C13_MarketListKeepsLetterSymbols ==
    ListReturned("NewMarketList") =>
        LET norm(row) == TrimSpace(ToLower(util.csvdata[row][1]))
            kept == {row \in 2..Len(util.csvdata) :
                        /\ Len(norm(row)) >= 1
                        /\ \A i \in 1..Len(norm(row)) : norm(row)[i] \in LetterSet}
        IN  /\ ValidMarket(util.market)
            /\ Len(util.symbols) = Cardinality(kept)
            /\ \A i \in 1..Len(util.symbols) : \E row \in kept : norm(row) = util.symbols[i]
            /\ \A row \in kept :
                  Count(util.symbols, norm(row)) =
                      Cardinality({r \in kept : norm(r) = norm(row)})

\* the payload with the tickers "aapl", "BRK.B" and "7203" yields "aapl" only
C13_OnlyAaplKept ==
    /\ ListReturned("NewMarketList")
    /\ util.csvdata = <<MarketHeader, << <<"a", "a", "p", "l">>, <<"n">> >>,
                        << <<"B", "R", "K", ".", "B">>, <<"n">> >>,
                        << <<"7", "2", "0", "3">>, <<"n">> >> >>
    /\ util.symbols = << <<"a", "a", "p", "l">> >>

\* C14: NewEtfList returns exactly the lower-cased first column of every line
\* whose 5th column is "Y" and whose 7th column is "N", sorted in ascending
\* order.
C14_EtfListKeepsFlaggedLines ==
    ListReturned("NewEtfList") =>
        LET lines == Split(util.buf, "\n")
            cols(i) == Split(lines[i], "|")
            kept == {i \in 1..Len(lines) :
                        Len(cols(i)) >= 7 /\ cols(i)[5] = <<"Y">> /\ cols(i)[7] = <<"N">>}
            sym(i) == ToLower(cols(i)[1])
        IN  /\ Len(util.symbols) = Cardinality(kept)
            /\ \A k \in 1..Len(util.symbols) : \E i \in kept : sym(i) = util.symbols[k]
            /\ \A i \in kept :
                  Count(util.symbols, sym(i)) = Cardinality({j \in kept : sym(j) = sym(i)})
            /\ \A k \in 1..(Len(util.symbols) - 1) :
                  ~StringLess(util.symbols[k + 1], util.symbols[k])

\* the lines of SPY and Agg, in this order, both flagged: agg comes first
C14_TwoEtfsSorted ==
    /\ ListReturned("NewEtfList")
    /\ Len(Split(util.buf, "\n")) >= 2
    /\ Split(Split(util.buf, "\n")[1], "|")[1] = <<"S", "P", "Y">>
    /\ util.symbols = << <<"a", "g", "g">>, <<"s", "p", "y">> >>

\* C15: in the output of Quote.Highstock and Quotes.Highstock every tuple of
\* a series but the last is followed by a comma and the last by none; in
\* Quotes.Highstock the array of every series but the last is followed by a
\* comma and the last by none.
C15_NoTrailingComma ==
    (util.pc = "done" /\ util.fn \in {"Quote.Highstock", "Quotes.Highstock"}) =>
        LET out == util.out
            tuples == {i \in 1..Len(out) : out[i].k = "tuple"}
            closes == {i \in 1..Len(out) : out[i].k = "]"}
        IN  /\ \A i \in tuples :
                  /\ i < Len(out)
                  /\ out[i + 1].k = "tuple" => out[i].comma = ","
                  /\ out[i + 1].k # "tuple" => out[i + 1].k = "]" /\ out[i].comma = ""
            /\ util.fn = "Quote.Highstock" =>
                  /\ Cardinality(tuples) = Len(util.s.Close)
                  /\ Cardinality(closes) = 1
            /\ util.fn = "Quotes.Highstock" =>
                  /\ Cardinality(closes) = Len(util.qs)
                  /\ \A i \in closes :
                        /\ i < Len(out)
                        /\ out[i + 1].k = "}" => out[i].comma = ""
                        /\ out[i + 1].k # "}" => out[i].comma = ","

\* two series of two bars each, charted
C15_TwoSeriesOfTwoBars ==
    /\ util.pc = "done"
    /\ util.fn = "Quotes.Highstock"
    /\ Len(util.qs) = 2
    /\ Len(util.qs[1].Close) = 2
    /\ Len(util.qs[2].Close) = 2
    /\ Len(util.out) = 10

\* the dates of the data rows of the records
HistDates(data) == [i \in 1..(Len(data) - 1) |-> ParseDay(data[i + 1][1])]

\* C16: parseHistorical skips the header row and returns the remaining k rows
\* in reverse positional order (data row i becomes bar k-1-i): of a payload
\* that runs from the newest to the oldest day the first bar is the oldest
\* day and the last bar the newest.
C16_HistoricalReversed ==
    ListReturned("GetDailyHistory") =>
        LET k == Len(util.csvdata) - 1
        IN  /\ Len(util.prices.Date) = k
            /\ Len(util.prices.Close) = k
            /\ \A i \in 0..(k - 1) :
                  /\ util.prices.Date[(k - 1 - i) + 1] = ParseDay(util.csvdata[i + 2][1])
                  /\ util.prices.Volume[(k - 1 - i) + 1] = ParseFloat(util.csvdata[i + 2][6])
            /\ (k >= 1 /\ StrictlyDescending(HistDates(util.csvdata))) =>
                  /\ util.prices.Date[1] = ParseDay(util.csvdata[k + 1][1])
                  /\ util.prices.Date[k] = ParseDay(util.csvdata[2][1])
                  /\ StrictlyAscending(util.prices.Date)

\* a payload of two days, the newer first
C16_NewestFirstPayload ==
    /\ ListReturned("GetDailyHistory")
    /\ Len(util.csvdata) = 3
    /\ ParseDay(util.csvdata[2][1]) > ParseDay(util.csvdata[3][1])
    /\ util.prices.Date[1] < util.prices.Date[2]

\* the requests of call c, in the order issued
CallRequests(c) == SelectSeq(fetch.requests, LAMBDA r : r.call = c)

\* C17: every Daily call of NewQuoteFromYahoo issues the home-page GET, the
\* token GET and the download GET in this order through one cookie jar made
\* in that call; the download carries the token read in that call; no jar is
\* used by two calls, so that each call of a batch does its own handshake.
C17_HandshakePerCall ==
    fetch.adapter = "yahoo" =>
        /\ \A i \in 1..(Len(fetch.requests) - 1) :
              fetch.requests[i].call <= fetch.requests[i + 1].call
        /\ \A c \in 1..fetch.call :
              LET rs == CallRequests(c)
              IN  /\ [i \in 1..Len(rs) |-> rs[i].kind] =
                        SubSeq(<<"home", "crumb", "download">>, 1, Len(rs))
                  /\ \A i \in 1..Len(rs) : rs[i].jar = rs[1].jar /\ rs[i].jar # 0
                  /\ \A d \in 1..fetch.call : \A i \in 1..Len(rs) :
                        \A j \in 1..Len(CallRequests(d)) :
                           d # c => CallRequests(d)[j].jar # rs[i].jar
                  /\ Len(rs) = 3 =>
                        [call |-> c, crumb |-> rs[3].crumb] \in fetch.tokens
        /\ Fetched0 => Len(CallRequests(fetch.call)) = 3

\* two calls in a row, each with its three requests
C17_TwoHandshakes ==
    /\ fetch.adapter = "yahoo"
    /\ Fetched0
    /\ fetch.call = 2
    /\ Len(fetch.requests) = 6
    /\ fetch.requests[3].crumb = "c1"
    /\ fetch.requests[6].crumb = "c2"

\* C18: in every batch function the fetch of a symbol, failed or not, is
\* followed by one sleep of the global Delay in milliseconds, and the value
\* slept is the one Delay holds at that iteration: a change made while the
\* batch runs is used from the next sleep on.
C18_SleepOfDelayAfterEveryFetch ==
    [][ /\ batch'.i = batch.i + 1 =>
              /\ batch'.sleeps = batch.sleeps + 1
              /\ batch'.slept = batch.Delay * Pow10(6)
              /\ batch'.sleeps = Len(batch'.errs)
        /\ batch'.i = batch.i => batch'.sleeps = batch.sleeps /\ batch'.slept = batch.slept
      ]_vars

\* a batch of two symbols, the first fetch failed, Delay set to 250 on the way
C18_DelayChangedMidBatch ==
    /\ batch.pc = "done"
    /\ batch.errs = <<"error", "nil">>
    /\ batch.sleeps = 2
    /\ batch.Delay = 250
    /\ batch.slept = 250 * Pow10(6)

RECURSIVE WindowRows(_)
\* the rows of the windows, each window reversed
WindowRows(windows) ==
    IF windows = <<>> THEN <<>>
    ELSE Reverse(Head(windows)) \o WindowRows(Tail(windows))

\* C19: the window loop of NewQuoteFromGdax terminates: the window start
\* strictly increases at each iteration, the loop is left as soon as the
\* window start is not before the end, and the call returns; when
\* start >= end no request is issued and the result is the symbol with zero
\* bars and a nil error.
C19_GdaxLoopTerminates ==
    /\ [][ fetch.adapter = "gdax" =>
              /\ (fetch.pc = "loop" /\ fetch'.pc = "loop") =>
                    fetch.startBar < fetch.end /\ fetch'.startBar > fetch.startBar
              /\ (fetch.pc = "loop" /\ ~(fetch.startBar < fetch.end)) =>
                    fetch'.pc = "done" /\ fetch'.requests = fetch.requests
         ]_vars
    /\ []((fetch.adapter = "gdax" /\ fetch.pc = "done" /\ fetch.start >= fetch.end) =>
              /\ fetch.requests = <<>>
              /\ fetch.q.Symbol = fetch.symbol
              /\ Len(fetch.q.Date) = 0 /\ Len(fetch.q.Close) = 0
              /\ fetch.err = "nil")
    /\ (fetch.adapter = "gdax") ~> (fetch.adapter = "gdax" /\ fetch.pc = "done")

\* a range of three windows, walked to its end
C19_ThreeWindowsWalked ==
    /\ fetch.adapter = "gdax"
    /\ Fetched0
    /\ Len(fetch.requests) = 3
    /\ fetch.startBar >= fetch.end

\* C20: NewQuoteFromGdax maps the candle [time, low, high, open, close,
\* volume] by meaning: Low is element 1, High element 2, Open element 3,
\* Close element 4, Volume element 5 and the time element 0, in seconds.
C20_CandleByMeaning ==
    (Fetched0 /\ fetch.adapter = "gdax" /\ ~fetch.badJSON) =>
        LET rows == WindowRows(fetch.windows)
        IN  /\ Len(fetch.q.Date) = Len(rows)
            /\ \A i \in 1..Len(rows) :
                  /\ fetch.q.Date[i] = TimeUnix(rows[i][1])
                  /\ fetch.q.Low[i] = rows[i][2]
                  /\ fetch.q.High[i] = rows[i][3]
                  /\ fetch.q.Open[i] = rows[i][4]
                  /\ fetch.q.Close[i] = rows[i][5]
                  /\ fetch.q.Volume[i] = rows[i][6]

\* C21: tiingoDaily builds one bar per response element, in the order
\* received, from the adjusted fields only: Open, High, Low, Close and Volume
\* are adjOpen, adjHigh, adjLow, adjClose and adjVolume.
C21_AdjustedFieldsOnly ==
    (Fetched0 /\ fetch.adapter = "tiingo" /\ ~fetch.badJSON) =>
        /\ Len(fetch.q.Close) = Len(fetch.body)
        /\ \A i \in 1..Len(fetch.body) :
              /\ fetch.q.Open[i] = fetch.body[i].adjOpen
              /\ fetch.q.High[i] = fetch.body[i].adjHigh
              /\ fetch.q.Low[i] = fetch.body[i].adjLow
              /\ fetch.q.Close[i] = fetch.body[i].adjClose
              /\ fetch.q.Volume[i] = fetch.body[i].adjVolume * Micro

\* the place of the first occurrence of an entry in the log, 0 when absent
LogIndex(log, e) ==
    IF \A i \in 1..Len(log) : log[i] # e THEN 0
    ELSE CHOOSE i \in 1..Len(log) : log[i] = e /\ \A j \in 1..(i - 1) : log[j] # e

\* C22: for a PASV reply "(h1,h2,h3,h4,p1,p2)" with p1, p2 in 0..255,
\* getAnonFTP opens the data connection to port p1*256 + p2, a value in
\* 0..65535, and only after the PASV reply has been read.
C22_DataPortFromPasvReply ==
    (util.fn = "getAnonFTP" /\ LogIndex(util.log, "dial data") > 0) =>
        /\ LogIndex(util.log, "PASV") > 0
        /\ LogIndex(util.log, "PASV") < LogIndex(util.log, "reply")
        /\ LogIndex(util.log, "reply") < LogIndex(util.log, "dial data")
        /\ util.message = PasvMessage(util.p[1], util.p[2]) =>
              /\ Atoi(util.dialed) = util.p[1] * 256 + util.p[2]
              /\ Atoi(util.dialed) \in 0..65535
              /\ IsDigits(util.dialed)

\* the reply "(10,0,0,7,20,255)": the data connection goes to port 5375
C22_Port5375 ==
    /\ util.fn = "getAnonFTP"
    /\ util.pc = "done"
    /\ util.err = "nil"
    /\ util.p = <<20, 255>>
    /\ util.dialed = <<"5", "3", "7", "5">>

\* the value of a numeric field: zero when it is malformed
NumberOrZero(f) == IF f.k = "num" THEN f.v * Pow10(6 - f.p) ELSE 0
\* the value of a date field: the zero time when it is malformed
MinuteOrZero(f) == IF f.k = "dt" THEN f.v * 60 ELSE 0

RECURSIVE Flatten(_, _)
\* the values of one field of the series of a collection, one after the other
Flatten(qs, field) ==
    IF qs = <<>> THEN <<>> ELSE Head(qs)[field] \o Flatten(Tail(qs), field)

\* a text whose lines all have `cols` columns, one of them with a malformed field
HasMalformedLine(cols) ==
    /\ codec.pc \in {"done", "panic"}
    /\ codec.lines # <<>>
    /\ \A i \in 1..Len(codec.lines) : Len(codec.lines[i]) = cols
    /\ \E i \in 1..Len(codec.lines) : \E c \in (cols - 5)..cols :
          codec.lines[i][c].k \notin {"num", "dt"}

\* C23: in NewQuoteFromCSV and NewQuotesFromCSV a malformed date or number
\* in a line with all its columns decodes to the zero value; the other fields
\* of the line and the other lines decode as usual; the call returns a nil
\* error and as many bars as for a well-formed text of as many lines.
C23_MalformedFieldIsZero ==
    /\ (codec.fn = "NewQuoteFromCSV" /\ HasMalformedLine(6)) =>
          LET q == codec.res.q
              wellFormed == NewQuoteFromCSV(codec.symbol,
                               TextOf(CsvHeader, [i \in 1..Len(codec.lines) |-> GoodLine(1)],
                                      codec.finalNL)).q
          IN  /\ codec.pc = "done"
              /\ codec.res.err = "nil"
              /\ Len(q.Close) = Len(wellFormed.Close)
              /\ \A i \in 1..Len(q.Close) :
                    /\ q.Date[i] = MinuteOrZero(codec.lines[i][1])
                    /\ q.Open[i] = NumberOrZero(codec.lines[i][2])
                    /\ q.High[i] = NumberOrZero(codec.lines[i][3])
                    /\ q.Low[i] = NumberOrZero(codec.lines[i][4])
                    /\ q.Close[i] = NumberOrZero(codec.lines[i][5])
                    /\ q.Volume[i] = NumberOrZero(codec.lines[i][6])
    /\ (codec.fn = "NewQuotesFromCSV" /\ HasMalformedLine(7)) =>
          LET qs == codec.res.qs
              n == IF codec.finalNL THEN Len(codec.lines) ELSE Len(codec.lines) - 1
          IN  /\ codec.pc = "done"
              /\ codec.res.err = "nil"
              /\ Flatten(qs, "Date") = [i \in 1..n |-> MinuteOrZero(codec.lines[i][2])]
              /\ Flatten(qs, "Open") = [i \in 1..n |-> NumberOrZero(codec.lines[i][3])]
              /\ Flatten(qs, "High") = [i \in 1..n |-> NumberOrZero(codec.lines[i][4])]
              /\ Flatten(qs, "Low") = [i \in 1..n |-> NumberOrZero(codec.lines[i][5])]
              /\ Flatten(qs, "Close") = [i \in 1..n |-> NumberOrZero(codec.lines[i][6])]
              /\ Flatten(qs, "Volume") = [i \in 1..n |-> NumberOrZero(codec.lines[i][7])]

\* three lines, the middle one with a malformed date and a malformed low
C23_MalformedMiddleLine ==
    /\ codec.fn = "NewQuoteFromCSV"
    /\ codec.pc = "done"
    /\ codec.finalNL
    /\ codec.lines = <<GoodLine(1), BadFieldLine, GoodLine(2)>>
    /\ Len(codec.res.q.Close) = 3
    /\ codec.res.q.Date[2] = 0
    /\ codec.res.q.Low[2] = 0
    /\ codec.res.q.High[2] = 9030000
    /\ codec.res.q.Close[3] = 2020000

\* C24: every request of NewQuoteFromGdax, not only the first, asks for a
\* window inside the requested range: its end is never later than the end of
\* the range.
C24_WindowsInsideRange ==
    fetch.adapter = "gdax" =>
        \A i \in 1..Len(fetch.requests) :
           /\ fetch.requests[i].start >= fetch.start
           /\ fetch.requests[i].end <= fetch.end

\* C25: Quotes.Highstock writes, for every series, one without bars
\* included, the key and the opener of the series before the closing bracket
\* of the series: as many keys as series, each closer after its own opener.
C25_KeyForEverySeries ==
    (util.pc = "done" /\ util.fn = "Quotes.Highstock") =>
        LET out == util.out
            keys == {i \in 1..Len(out) : out[i].k = "key"}
            closes == {i \in 1..Len(out) : out[i].k = "]"}
        IN  /\ Cardinality(keys) = Len(util.qs)
            /\ Cardinality(closes) = Len(util.qs)
            /\ \A c \in closes :
                  Cardinality({k \in keys : k < c}) = Cardinality({d \in closes : d <= c})

\* C26: NewQuoteFromCSV returns normally for every text: the empty string
\* and a text with a line of fewer than 6 fields included.
C26_DecodeAlwaysReturns ==
    (codec.fn = "NewQuoteFromCSV" /\ codec.pc \in {"done", "panic"}) =>
        /\ codec.pc = "done"
        /\ ~codec.res.panic

\* C27: the filter of NewEtfList never reads a column a line does not have:
\* whatever the number of columns of a line (6 with the 5th "Y" included) the
\* line is kept or skipped and the function returns.
C27_EtfFilterAlwaysReturns ==
    (util.fn = "NewEtfList" /\ util.pc \in {"done", "panic"}) => util.pc = "done"

\* the six sequences of a Quote have one length
OneLength(q) ==
    \A len \in {Len(q.Open), Len(q.High), Len(q.Low), Len(q.Close), Len(q.Volume)} :
       len = Len(q.Date)

\* C28: every Quote that NewQuote, NewQuoteFromCSV, NewQuotesFromCSV,
\* NewQuoteFromYahoo, NewQuoteFromTiingo or NewQuoteFromGdax returns has six
\* sequences of one common length; so has the Quote NewQuoteFromGdax
\* accumulates, after every appended window.
C28_SixSequencesOneLength ==
    /\ (codec.pc = "done" /\ codec.fn = "NewQuoteFromCSV") => OneLength(codec.res.q)
    /\ (codec.pc = "done" /\ codec.fn = "NewQuotesFromCSV") =>
          \A k \in 1..Len(codec.res.qs) : OneLength(codec.res.qs[k])
    /\ fetch.pc = "done" => OneLength(fetch.q)
    /\ (fetch.adapter = "gdax" /\ fetch.pc = "loop") => OneLength(fetch.q)
    /\ \A symbol \in Symbols \cup {""}, bars \in 0..MaxLines : OneLength(NewQuote(symbol, bars))

\* NewQuoteFromGdax returned the bars of two appended windows
C28_TwoWindowsAppended ==
    /\ fetch.adapter = "gdax" /\ fetch.pc = "done" /\ fetch.err = "nil"
    /\ Len(fetch.windows) >= 2
    /\ \A w \in 1..2 : Len(fetch.windows[w]) >= 1
    /\ Len(fetch.q.Volume) = Len(fetch.windows[1]) + Len(fetch.windows[2])
    /\ Len(fetch.q.Volume) >= 2

\* C29: a batch function over a symbol list returns a nil error, after one
\* fetch per input symbol; when every fetch failed (a Yahoo batch with a
\* period other than Daily) or the list is empty the collection is empty.
C29_BatchErrorIsNil ==
    batch.pc = "done" =>
        /\ batch.err = "nil"
        /\ Len(batch.errs) = Len(batch.symbols)
        /\ batch.sleeps = Len(batch.symbols)
        /\ (\A i \in 1..Len(batch.errs) : batch.errs[i] # "nil") => batch.quotes = <<>>
        /\ batch.symbols = <<>> => batch.quotes = <<>>
        /\ (batch.fn = "Yahoo" /\ batch.period # Daily) => batch.quotes = <<>>

\* a Yahoo batch of two symbols or more with the Weekly period has returned
C29_WeeklyYahooBatch ==
    /\ batch.pc = "done" /\ batch.fn = "Yahoo" /\ batch.period = Weekly
    /\ Len(batch.symbols) >= 2
    /\ \A i \in 1..Len(batch.symbols) : batch.errs[i] = "error"
    /\ batch.quotes = <<>> /\ batch.err = "nil"

\* C30: when a window request of NewQuoteFromGdax fails in the network the
\* call returns the error with the empty Quote (no symbol, no bar), whatever
\* the earlier windows gave, and the failed request is its last one.
C30_NetworkFailureReturnsNothing ==
    (fetch.adapter = "gdax" /\ fetch.pc = "done" /\ fetch.err = "network") =>
        /\ fetch.q.Symbol = ""
        /\ \A field \in {fetch.q.Date, fetch.q.Open, fetch.q.High, fetch.q.Low,
                         fetch.q.Close, fetch.q.Volume} : field = <<>>
        /\ Len(fetch.requests) = Len(fetch.windows) + 1
        /\ fetch.requests[Len(fetch.requests)].start = fetch.startBar

\* the second window failed after the first one gave bars
C30_FailedAfterOneWindow ==
    /\ fetch.adapter = "gdax" /\ fetch.pc = "done" /\ fetch.err = "network"
    /\ Len(fetch.windows) = 1
    /\ Len(fetch.windows[1]) >= 1
    /\ Len(fetch.requests) = 2
    /\ fetch.q = NewQuote("", 0)

====
